---- MODULE Spec2Model ----
(***************************************************************************)
(* Model of BatchingChannel (batching_channel.go).                         *)
(*                                                                         *)
(* One coordination goroutine (batchingBuffer) owns the buffer and selects *)
(* among three unbuffered Go channels: ch.input (receive), ch.output       *)
(* (send of the whole buffer) and ch.length (send of len(buffer)).         *)
(* Writers, readers, Len callers and Close callers are separate            *)
(* goroutines that meet the loop only in channel rendezvous.               *)
(*                                                                         *)
(* Go channel semantics used: a send on a closed channel panics in the     *)
(* sender (also a sender already blocked when the channel is closed); a    *)
(* receive on a closed channel returns the zero value with ok = false; a   *)
(* close of a closed channel panics in the closer; a nil channel in a      *)
(* select is never ready.                                                  *)
(***************************************************************************)
EXTENDS Integers, Sequences, FiniteSets, TLC

\* ---------------------------------------------------------------- bounds
NumWriters == 2
MaxSubmits == 3
NumReaders == 2
NumLenCallers == 1
MaxCap == 2
MaxClose == 2
NumLiveReaders == 1

Writers == 1..NumWriters
Readers == 1..NumReaders
LenCallers == 1..NumLenCallers

\* ------------------------------------------------- BufferCap constants
None == 0
Infinity == -1

\* sizes a caller may pass to NewBatchingChannel: an invalid negative one,
\* Infinity, None and the positive ones up to MaxCap
SizeChoices == {Infinity - 1, Infinity, None} \cup (1..MaxCap)

\* a nil channel variable of the loop, and the two channels it can hold
NilChan == "nil"
ChInput == "ch.input"
ChOutput == "ch.output"

VARIABLES
    ctor,           \* NewBatchingChannel: "call", "ok" (returned ch), "panic"
    size,           \* ch.size
    inClosed,       \* ch.input has been closed
    outClosed,      \* ch.output has been closed
    lenClosed,      \* ch.length has been closed
    buffer,         \* ch.buffer
    input,          \* batchingBuffer local: input
    output,         \* batchingBuffer local: output
    nextInput,      \* batchingBuffer local: nextInput
    lpc,            \* position of the batchingBuffer goroutine
    wpc,            \* writer goroutines: "idle", "sending", "panicked"
    nsent,          \* writer goroutines: number of sends started
    rpc,            \* reader goroutines: "idle", "recv", "eos" (saw Out() closed)
    got,            \* reader goroutines: batches received from Out(), in order
    qpc,            \* Len callers: "idle", "waiting"
    lenResult,      \* Len callers: value returned by the last Len(), 0 during a call
    closeCalls,     \* number of Close() calls made
    closePanics,    \* number of Close() calls that panicked
    accepted,       \* history: values the loop received from In, in order
    delivered,      \* history: batches the loop sent on Out, in order
    batchesAfterClose, \* history: batches sent on Out since input was closed
    lateSend,       \* history: the writer's current submit started after Close
    capAtClose,     \* history: the buffer was at capacity when input was closed
    capDrained,     \* history: a full batch left while the writer's submit was pending
    earlyRecv       \* history: a receive and a submit have been pending together

chanVars == <<inClosed, outClosed, lenClosed>>
loopVars == <<buffer, input, output, nextInput, lpc>>
writerVars == <<wpc, nsent>>
readerVars == <<rpc, got>>
lenVars == <<qpc, lenResult>>
closeVars == <<closeCalls, closePanics>>
histVars == <<accepted, delivered, batchesAfterClose, lateSend, capAtClose,
              capDrained, earlyRecv>>
vars == <<ctor, size, chanVars, loopVars, writerVars, readerVars, lenVars,
          closeVars, histVars>>

\* ---------------------------------------------------------------- helpers
RECURSIVE Flatten(_)
Flatten(bs) == IF bs = <<>> THEN <<>> ELSE Head(bs) \o Flatten(Tail(bs))

Range(s) == {s[i] : i \in 1..Len(s)}

\* the value writer w is sending (its nsent[w]-th submit)
ValueOf(w) == <<w, nsent[w]>>

\* some reader has started a receive on Out()
RecvStarted == \E r \in Readers : rpc[r] # "idle" \/ got[r] # <<>>

\* the buffer has reached a bounded capacity
AtCapacity == size # Infinity /\ Len(buffer) >= size

\* every value some writer has started to submit
Submitted == UNION {{<<w, n>> : n \in 1..nsent[w]} : w \in Writers}

Init ==
    /\ ctor = "call"
    /\ size \in SizeChoices
    /\ inClosed = FALSE /\ outClosed = FALSE /\ lenClosed = FALSE
    /\ buffer = <<>>
    /\ input = NilChan /\ output = NilChan /\ nextInput = NilChan
    /\ lpc = "none"
    /\ wpc = [w \in Writers |-> "idle"]
    /\ nsent = [w \in Writers |-> 0]
    /\ rpc = [r \in Readers |-> "idle"]
    /\ got = [r \in Readers |-> <<>>]
    /\ qpc = [c \in LenCallers |-> "idle"]
    /\ lenResult = [c \in LenCallers |-> 0]
    /\ closeCalls = 0 /\ closePanics = 0
    /\ accepted = <<>> /\ delivered = <<>>
    /\ batchesAfterClose = 0
    /\ lateSend = [w \in Writers |-> FALSE]
    /\ capAtClose = FALSE
    /\ capDrained = [w \in Writers |-> FALSE]
    /\ earlyRecv = FALSE

\* ------------------------------------------------------- NewBatchingChannel
\* mutant of ValidSize: the test for an invalid negative size is missing
ValidSizeAnyNegative(s) == ~(s = None)

ValidSize(s) == ~(s = None) /\ ~(s < 0 /\ s # Infinity)

NewBatchingChannel ==
    /\ ctor = "call"
    /\ IF ValidSize(size)
         THEN /\ ctor' = "ok"
              /\ nextInput' = ChInput
              /\ input' = ChInput
              /\ lpc' = "select"
         ELSE /\ ctor' = "panic"
              /\ UNCHANGED <<nextInput, input, lpc>>
    /\ UNCHANGED <<size, chanVars, buffer, output, writerVars, readerVars,
                   lenVars, closeVars, histVars>>

\* ------------------------------------------------------------ batchingBuffer
\* zero value delivered by a receive on the closed input channel
NilElem == <<0, 0>>

\* mutant of LoopCond: the loop runs only while the write side is enabled
LoopCondInputOnly(in, out) == in # NilChan

\* mutant of LoopCond: the loop runs only while the output case is enabled
LoopCondOutputOnly(in, out) == out # NilChan

\* for input != nil || output != nil
LoopCond(in, out) == in # NilChan \/ out # NilChan

\* mutant of RecvCase: the element is put at the head of the buffer
RecvCasePrepend(open, elem, buf, nxt) ==
    IF open
      THEN [buffer |-> <<elem>> \o buf, nextInput |-> nxt]
      ELSE [buffer |-> buf, nextInput |-> NilChan]

\* mutant of RecvCase: the element replaces the buffer
RecvCaseOverwrite(open, elem, buf, nxt) ==
    IF open
      THEN [buffer |-> <<elem>>, nextInput |-> nxt]
      ELSE [buffer |-> buf, nextInput |-> NilChan]

\* mutant of RecvCase: open is ignored, the zero value of a closed receive
\* is appended like any element
RecvCaseIgnoreOpen(open, elem, buf, nxt) ==
    [buffer |-> Append(buf, elem), nextInput |-> nxt]

\* case elem, open := <-input: the new buffer and nextInput
RecvCase(open, elem, buf, nxt) ==
    IF open
      THEN [buffer |-> Append(buf, elem), nextInput |-> nxt]
      ELSE [buffer |-> buf, nextInput |-> NilChan]

\* mutant of TakeBuffer: the buffer is not reset after the hand-off
KeepBuffer(buf) == buf

\* mutant of TakeBuffer: only the first element leaves the buffer
TakeBufferTail(buf) == Tail(buf)

\* case output <- ch.buffer: ch.buffer = nil
TakeBuffer(buf) == <<>>

\* mutant of LenReply: the length is off by one
LenReplyOffByOne(buf) == Len(buf) + 1

\* case ch.length <- len(ch.buffer): the value sent
LenReply(buf) == Len(buf)

\* mutant of Recompute: the output edge stays offered on an empty buffer
RecomputeOutputOnEmpty(buf, nxt) ==
    IF Len(buf) = 0
      THEN [input |-> nxt, output |-> ChOutput]
      ELSE IF size # Infinity /\ Len(buf) >= size
        THEN [input |-> NilChan, output |-> ChOutput]
        ELSE [input |-> nxt, output |-> ChOutput]

\* mutant of Recompute: the capacity test is > instead of >=
RecomputeOverCap(buf, nxt) ==
    IF Len(buf) = 0
      THEN [input |-> nxt, output |-> NilChan]
      ELSE IF size # Infinity /\ Len(buf) > size
        THEN [input |-> NilChan, output |-> ChOutput]
        ELSE [input |-> nxt, output |-> ChOutput]

\* mutant of Recompute: the write edge is not re-enabled on an empty buffer
RecomputeNoReopen(buf, nxt) ==
    IF Len(buf) = 0
      THEN [input |-> NilChan, output |-> NilChan]
      ELSE IF size # Infinity /\ Len(buf) >= size
        THEN [input |-> NilChan, output |-> ChOutput]
        ELSE [input |-> nxt, output |-> ChOutput]

\* mutant of Recompute: the write edge stays enabled at capacity
RecomputeNoBackpressure(buf, nxt) ==
    IF Len(buf) = 0
      THEN [input |-> nxt, output |-> NilChan]
      ELSE [input |-> nxt, output |-> ChOutput]

\* the if / else if / else after the select: the new input and output
Recompute(buf, nxt) ==
    IF Len(buf) = 0
      THEN [input |-> nxt, output |-> NilChan]
      ELSE IF size # Infinity /\ Len(buf) >= size
        THEN [input |-> NilChan, output |-> ChOutput]
        ELSE [input |-> nxt, output |-> ChOutput]

\* mutant of Receivers: the send is seen by every reader blocked on Out()
ReceiversBroadcast(r) == {x \in Readers : rpc[x] = "recv"}

\* an unbuffered channel send completes with exactly one receiver
Receivers(r) == {r}

Running == lpc = "select" /\ LoopCond(input, output)

\* the loop receives the value writer w is blocked sending
LoopRecv(w) ==
    /\ Running
    /\ input # NilChan /\ ~inClosed
    /\ wpc[w] = "sending"
    /\ LET rc == RecvCase(TRUE, ValueOf(w), buffer, nextInput)
           nx == Recompute(rc.buffer, rc.nextInput)
       IN /\ buffer' = rc.buffer
          /\ nextInput' = rc.nextInput
          /\ input' = nx.input
          /\ output' = nx.output
    /\ wpc' = [wpc EXCEPT ![w] = "idle"]
    /\ accepted' = Append(accepted, ValueOf(w))
    /\ capDrained' = [capDrained EXCEPT ![w] = FALSE]
    /\ UNCHANGED <<ctor, size, chanVars, lpc, nsent, readerVars, lenVars,
                   closeVars, delivered, batchesAfterClose, lateSend,
                   capAtClose, earlyRecv>>

\* the loop receives from the closed input channel (open = false)
LoopRecvClosed ==
    /\ Running
    /\ input # NilChan /\ inClosed
    /\ LET rc == RecvCase(FALSE, NilElem, buffer, nextInput)
           nx == Recompute(rc.buffer, rc.nextInput)
       IN /\ buffer' = rc.buffer
          /\ nextInput' = rc.nextInput
          /\ input' = nx.input
          /\ output' = nx.output
    /\ UNCHANGED <<ctor, size, chanVars, lpc, writerVars, readerVars, lenVars,
                   closeVars, histVars>>

\* mutant of LoopSend: after the hand-off the write case keeps its old state
LoopSendKeepsInput(r) ==
    /\ Running
    /\ output # NilChan
    /\ rpc[r] = "recv"
    /\ got' = [x \in Readers |->
                 IF x \in Receivers(r) THEN Append(got[x], buffer) ELSE got[x]]
    /\ rpc' = [x \in Readers |->
                 IF x \in Receivers(r) THEN "idle" ELSE rpc[x]]
    /\ delivered' = Append(delivered, buffer)
    /\ batchesAfterClose' = IF inClosed THEN batchesAfterClose + 1
                                        ELSE batchesAfterClose
    /\ buffer' = TakeBuffer(buffer)
    /\ output' = NilChan
    /\ capDrained' = [w \in Writers |->
                        capDrained[w] \/ (wpc[w] = "sending" /\ AtCapacity)]
    /\ UNCHANGED <<ctor, size, chanVars, input, nextInput, lpc, writerVars,
                   lenVars, closeVars, accepted, lateSend, capAtClose,
                   earlyRecv>>

\* the loop sends the whole buffer to reader r blocked on Out()
LoopSend(r) ==
    /\ Running
    /\ output # NilChan
    /\ rpc[r] = "recv"
    /\ got' = [x \in Readers |->
                 IF x \in Receivers(r) THEN Append(got[x], buffer) ELSE got[x]]
    /\ rpc' = [x \in Readers |->
                 IF x \in Receivers(r) THEN "idle" ELSE rpc[x]]
    /\ delivered' = Append(delivered, buffer)
    /\ batchesAfterClose' = IF inClosed THEN batchesAfterClose + 1
                                        ELSE batchesAfterClose
    /\ LET nb == TakeBuffer(buffer)
           nx == Recompute(nb, nextInput)
       IN /\ buffer' = nb
          /\ input' = nx.input
          /\ output' = nx.output
    /\ capDrained' = [w \in Writers |->
                        capDrained[w] \/ (wpc[w] = "sending" /\ AtCapacity)]
    /\ UNCHANGED <<ctor, size, chanVars, nextInput, lpc, writerVars,
                   lenVars, closeVars, accepted, lateSend, capAtClose,
                   earlyRecv>>

\* mutant of LoopLen: answering the length also drops the buffer
LoopLenResets(c) ==
    /\ Running
    /\ qpc[c] = "waiting"
    /\ lenResult' = [lenResult EXCEPT ![c] = LenReply(buffer)]
    /\ qpc' = [qpc EXCEPT ![c] = "idle"]
    /\ buffer' = <<>>
    /\ LET nx == Recompute(<<>>, nextInput)
       IN /\ input' = nx.input
          /\ output' = nx.output
    /\ UNCHANGED <<ctor, size, chanVars, nextInput, lpc, writerVars,
                   readerVars, closeVars, histVars>>

\* mutant of LoopLen: the length case is offered only while the write case is
LoopLenWithInput(c) ==
    /\ Running
    /\ input # NilChan
    /\ qpc[c] = "waiting"
    /\ lenResult' = [lenResult EXCEPT ![c] = LenReply(buffer)]
    /\ qpc' = [qpc EXCEPT ![c] = "idle"]
    /\ LET nx == Recompute(buffer, nextInput)
       IN /\ input' = nx.input
          /\ output' = nx.output
    /\ UNCHANGED <<ctor, size, chanVars, buffer, nextInput, lpc, writerVars,
                   readerVars, closeVars, histVars>>

\* the loop answers Len caller c blocked on ch.length
LoopLen(c) ==
    /\ Running
    /\ qpc[c] = "waiting"
    /\ lenResult' = [lenResult EXCEPT ![c] = LenReply(buffer)]
    /\ qpc' = [qpc EXCEPT ![c] = "idle"]
    /\ LET nx == Recompute(buffer, nextInput)
       IN /\ input' = nx.input
          /\ output' = nx.output
    /\ UNCHANGED <<ctor, size, chanVars, buffer, nextInput, lpc, writerVars,
                   readerVars, closeVars, histVars>>

\* the for condition fails: the loop is left
LoopExit ==
    /\ lpc = "select"
    /\ ~LoopCond(input, output)
    /\ lpc' = "closeOutput"
    /\ UNCHANGED <<ctor, size, chanVars, buffer, input, output, nextInput,
                   writerVars, readerVars, lenVars, closeVars, histVars>>

\* close(ch.output)
LoopCloseOutput ==
    /\ lpc = "closeOutput"
    /\ outClosed' = TRUE
    /\ lpc' = "closeLength"
    /\ UNCHANGED <<ctor, size, inClosed, lenClosed, buffer, input, output,
                   nextInput, writerVars, readerVars, lenVars, closeVars,
                   histVars>>

\* mutant of LoopCloseLength: the loop ends without closing ch.length
LoopEndsLengthOpen ==
    /\ lpc = "closeLength"
    /\ lpc' = "done"
    /\ UNCHANGED <<ctor, size, chanVars, buffer, input, output, nextInput,
                   writerVars, readerVars, lenVars, closeVars, histVars>>

\* close(ch.length)
LoopCloseLength ==
    /\ lpc = "closeLength"
    /\ lenClosed' = TRUE
    /\ lpc' = "done"
    /\ UNCHANGED <<ctor, size, inClosed, outClosed, buffer, input, output,
                   nextInput, writerVars, readerVars, lenVars, closeVars,
                   histVars>>

\* ------------------------------------------------------------------ callers
\* a writer starts ch.In() <- v
StartSend(w) ==
    /\ ctor = "ok"
    /\ wpc[w] = "idle"
    /\ Cardinality(Submitted) < MaxSubmits
    /\ nsent' = [nsent EXCEPT ![w] = @ + 1]
    /\ wpc' = [wpc EXCEPT ![w] = "sending"]
    /\ earlyRecv' = (earlyRecv \/ RecvStarted)
    /\ lateSend' = [lateSend EXCEPT ![w] = inClosed]
    /\ capDrained' = [capDrained EXCEPT ![w] = FALSE]
    /\ UNCHANGED <<ctor, size, chanVars, loopVars, readerVars, lenVars,
                   closeVars, accepted, delivered, batchesAfterClose,
                   capAtClose>>

\* a send on the closed input channel panics in the writer
SendPanic(w) ==
    /\ wpc[w] = "sending"
    /\ inClosed
    /\ wpc' = [wpc EXCEPT ![w] = "panicked"]
    /\ UNCHANGED <<ctor, size, chanVars, loopVars, nsent, readerVars, lenVars,
                   closeVars, histVars>>

\* a reader starts <-ch.Out()
StartRecv(r) ==
    /\ ctor = "ok"
    /\ rpc[r] \in {"idle", "eos"}
    /\ rpc' = [rpc EXCEPT ![r] = "recv"]
    /\ earlyRecv' = (earlyRecv \/ \E w \in Writers : wpc[w] = "sending")
    /\ UNCHANGED <<ctor, size, chanVars, loopVars, writerVars, got,
                   lenVars, closeVars, accepted, delivered, batchesAfterClose,
                   lateSend, capAtClose, capDrained>>

\* a receive on the closed output channel reports end-of-stream
RecvClosed(r) ==
    /\ rpc[r] = "recv"
    /\ outClosed
    /\ rpc' = [rpc EXCEPT ![r] = "eos"]
    /\ UNCHANGED <<ctor, size, chanVars, loopVars, writerVars, got, lenVars,
                   closeVars, histVars>>

\* Len(): a caller starts <-ch.length
StartLen(c) ==
    /\ ctor = "ok"
    /\ qpc[c] = "idle"
    /\ qpc' = [qpc EXCEPT ![c] = "waiting"]
    /\ lenResult' = [lenResult EXCEPT ![c] = 0]
    /\ UNCHANGED <<ctor, size, chanVars, loopVars, writerVars, readerVars,
                   closeVars, histVars>>

\* Len(): a receive on the closed length channel returns the zero value
LenClosed(c) ==
    /\ qpc[c] = "waiting"
    /\ lenClosed
    /\ lenResult' = [lenResult EXCEPT ![c] = 0]
    /\ qpc' = [qpc EXCEPT ![c] = "idle"]
    /\ UNCHANGED <<ctor, size, chanVars, loopVars, writerVars, readerVars,
                   closeVars, histVars>>

\* mutant of Close: a second Close() is silently accepted
CloseIdempotent ==
    /\ ctor = "ok"
    /\ closeCalls < MaxClose
    /\ closeCalls' = closeCalls + 1
    /\ inClosed' = TRUE
    /\ capAtClose' = IF inClosed THEN capAtClose ELSE AtCapacity
    /\ UNCHANGED <<ctor, size, outClosed, lenClosed, loopVars, writerVars,
                   readerVars, lenVars, closePanics, accepted, delivered,
                   batchesAfterClose, lateSend, capDrained, earlyRecv>>

\* Close(): close(ch.input); closing a closed channel panics in the caller
Close ==
    /\ ctor = "ok"
    /\ closeCalls < MaxClose
    /\ closeCalls' = closeCalls + 1
    /\ IF inClosed
         THEN /\ closePanics' = closePanics + 1
              /\ UNCHANGED <<inClosed, capAtClose>>
         ELSE /\ inClosed' = TRUE
              /\ capAtClose' = AtCapacity
              /\ UNCHANGED closePanics
    /\ UNCHANGED <<ctor, size, outClosed, lenClosed, loopVars, writerVars,
                   readerVars, lenVars, accepted, delivered,
                   batchesAfterClose, lateSend, capDrained, earlyRecv>>

Next ==
    \/ NewBatchingChannel
    \/ \E w \in Writers : LoopRecv(w)
    \/ LoopRecvClosed
    \/ \E r \in Readers : LoopSend(r)
    \/ \E c \in LenCallers : LoopLen(c)
    \/ LoopExit
    \/ LoopCloseOutput
    \/ LoopCloseLength
    \/ \E w \in Writers : StartSend(w)
    \/ \E w \in Writers : SendPanic(w)
    \/ \E r \in Readers : StartRecv(r)
    \/ \E r \in Readers : RecvClosed(r)
    \/ \E c \in LenCallers : StartLen(c)
    \/ \E c \in LenCallers : LenClosed(c)
    \/ Close

Spec == Init /\ [][Next]_vars

\* the readers that act in the fair specification
LiveReaders == 1..NumLiveReaders

\* Next with the readers of LiveReaders only
LiveNext ==
    \/ NewBatchingChannel
    \/ \E w \in Writers : LoopRecv(w)
    \/ LoopRecvClosed
    \/ \E r \in LiveReaders : LoopSend(r)
    \/ \E c \in LenCallers : LoopLen(c)
    \/ LoopExit
    \/ LoopCloseOutput
    \/ LoopCloseLength
    \/ \E w \in Writers : StartSend(w)
    \/ \E w \in Writers : SendPanic(w)
    \/ \E r \in LiveReaders : StartRecv(r)
    \/ \E r \in LiveReaders : RecvClosed(r)
    \/ \E c \in LenCallers : StartLen(c)
    \/ \E c \in LenCallers : LenClosed(c)
    \/ Close

\* select chooses at random among the ready cases, so a case that is ready
\* again and again is taken; the steps after the loop and a blocked
\* operation on a closed channel run as soon as they can.  Callers are free
\* never to call.
Fairness ==
    /\ \A w \in Writers : SF_vars(LoopRecv(w))
    /\ SF_vars(LoopRecvClosed)
    /\ \A r \in LiveReaders : SF_vars(LoopSend(r))
    /\ \A c \in LenCallers : SF_vars(LoopLen(c))
    /\ WF_vars(LoopExit)
    /\ WF_vars(LoopCloseOutput)
    /\ WF_vars(LoopCloseLength)
    /\ \A w \in Writers : WF_vars(SendPanic(w))
    /\ \A r \in LiveReaders : WF_vars(RecvClosed(r))
    /\ \A c \in LenCallers : WF_vars(LenClosed(c))

FairSpec == Init /\ [][LiveNext]_vars /\ Fairness

TypeOK ==
    /\ ctor \in {"call", "ok", "panic"}
    /\ size \in SizeChoices
    /\ inClosed \in BOOLEAN /\ outClosed \in BOOLEAN /\ lenClosed \in BOOLEAN
    /\ input \in {NilChan, ChInput}
    /\ nextInput \in {NilChan, ChInput}
    /\ output \in {NilChan, ChOutput}
    /\ lpc \in {"none", "select", "closeOutput", "closeLength", "done"}
    /\ \A w \in Writers : wpc[w] \in {"idle", "sending", "panicked"}
    /\ \A w \in Writers : nsent[w] \in 0..MaxSubmits
    /\ \A r \in Readers : rpc[r] \in {"idle", "recv", "eos"}
    /\ \A c \in LenCallers : qpc[c] \in {"idle", "waiting"}
    /\ closeCalls \in 0..MaxClose /\ closePanics \in 0..MaxClose

\* ------------------------------------------------------------------- claims
Delivered == Flatten(delivered)

\* the values reader r has received, in order
GotBy(r) == Flatten(got[r])

\* C1: the batches delivered on Out, concatenated in delivery order and
\* followed by the buffer, are exactly the values accepted from In, in
\* acceptance order (nothing lost, duplicated, split or reordered).
C1_DeliveredThenBufferIsAccepted ==
    /\ Delivered \o buffer = accepted
    /\ Cardinality(Range(Delivered \o buffer)) = Len(Delivered) + Len(buffer)

C1_Witness ==
    /\ Len(delivered) >= 2
    /\ \E i \in 1..Len(delivered) : Len(delivered[i]) >= 2
    /\ buffer = <<>>

\* C2: every batch handed out on Out is non-empty, and the loop offers the
\* output edge only while the buffer holds a value, also after Close.
C2_BatchesNonEmpty ==
    /\ \A i \in 1..Len(delivered) : Len(delivered[i]) >= 1
    /\ \A r \in Readers : \A i \in 1..Len(got[r]) : Len(got[r][i]) >= 1
    /\ output # NilChan => Len(buffer) >= 1

C2_Witness ==
    /\ inClosed
    /\ batchesAfterClose >= 1
    /\ \E r \in Readers : got[r] # <<>>
    /\ lpc = "select"

\* C3: with a bounded capacity N the buffer never holds more than N values
\* and no batch has more than N; M > N submitted values come out as several
\* batches of at most N that concatenate to the submission order.
C3_BoundedBatches ==
    (ctor = "ok" /\ size # Infinity) =>
        /\ size >= 1
        /\ Len(buffer) <= size
        /\ \A i \in 1..Len(delivered) : Len(delivered[i]) <= size
        /\ Delivered \o buffer = accepted
        /\ (buffer = <<>> /\ Len(accepted) > size) => Len(delivered) >= 2

C3_Witness ==
    /\ ctor = "ok" /\ size = MaxCap
    /\ Len(accepted) > size
    /\ buffer = <<>>
    /\ \E i \in 1..Len(delivered) : Len(delivered[i]) = size

\* C4: with capacity Infinity, when the first receive starts only after all
\* k >= 1 submits were accepted (and no submit follows), exactly one batch
\* is produced and it holds all k values in submission order.
C4_Precondition ==
    /\ ctor = "ok" /\ size = Infinity
    /\ RecvStarted /\ ~earlyRecv
    /\ accepted # <<>>

C4_OneBatchAfterAllWrites ==
    C4_Precondition =>
        /\ Len(delivered) <= 1
        /\ delivered = <<>> =>
              (buffer = accepted /\ lpc = "select" /\ output = ChOutput)
        /\ delivered # <<>> => (delivered[1] = accepted /\ buffer = <<>>)

C4_Witness ==
    /\ C4_Precondition
    /\ Len(delivered) = 1
    /\ Len(delivered[1]) = MaxSubmits
    /\ \E r \in Readers : got[r] = <<accepted>>

\* C5: after Close the values still buffered stay on offer as a batch, and
\* Out is closed only once the buffer is drained: whenever Out is closed the
\* buffer is empty and every accepted value has been delivered.
C5_OutClosedOnlyWhenDrained ==
    /\ outClosed =>
          (inClosed /\ buffer = <<>> /\ Delivered = accepted)
    /\ (inClosed /\ buffer # <<>>) =>
          (lpc = "select" /\ output = ChOutput /\ ~outClosed)

C5_Witness ==
    /\ outClosed
    /\ batchesAfterClose >= 1
    /\ \E r \in Readers : rpc[r] = "eos"

\* C6: a submit made after Close fails in the submitting writer (panic:
\* send on closed channel); its value never reaches the buffer or a batch,
\* a writer returns normally only when its value was accepted, the buffer
\* never grows once the input is closed, and the loop leaves its select
\* only with the buffer drained.
C6_SubmitAfterCloseFails ==
    /\ [](/\ \A w \in Writers :
               /\ wpc[w] = "panicked" =>
                     (inClosed /\ ValueOf(w) \notin Range(Delivered \o buffer))
               /\ lateSend[w] =>
                     /\ wpc[w] \in {"sending", "panicked"}
                     /\ ValueOf(w) \notin Range(Delivered \o buffer)
               /\ (wpc[w] = "idle" /\ nsent[w] >= 1) =>
                     ValueOf(w) \in Range(accepted)
          /\ (inClosed /\ lpc # "select") => buffer = <<>>)
    /\ [][inClosed => Len(buffer') <= Len(buffer)]_vars

C6_Witness ==
    /\ \E w \in Writers : wpc[w] = "panicked" /\ lateSend[w]
    /\ batchesAfterClose >= 1
    /\ lpc = "done"

\* C7: a Close on an already closed BatchingChannel panics in the caller
\* (a first Close does not), and that step leaves the loop's buffer, its
\* input/output/nextInput, its position and the channels unchanged.
C7_DoubleClosePanics ==
    [][(closeCalls' # closeCalls) =>
          IF inClosed
            THEN /\ closePanics' = closePanics + 1
                 /\ UNCHANGED <<loopVars, chanVars, accepted, delivered>>
            ELSE /\ closePanics' = closePanics
                 /\ inClosed']_vars

C7_Witness ==
    /\ closePanics >= 1
    /\ buffer # <<>>
    /\ lpc = "select"

\* C8: with concurrent writers, the delivered batches hold each submitted
\* value exactly once (all of them once every submit is accepted and the
\* buffer drained), and inside a batch the values of one writer keep that
\* writer's submission order.
C8_ExactlyOncePerWriterOrder ==
    /\ Cardinality(Range(Delivered)) = Len(Delivered)
    /\ Range(Delivered) \subseteq Submitted
    /\ (Range(accepted) = Submitted /\ buffer = <<>>) =>
          Range(Delivered) = Submitted
    /\ \A k \in 1..Len(delivered) :
          \A i, j \in 1..Len(delivered[k]) :
              (i < j /\ delivered[k][i][1] = delivered[k][j][1]) =>
                  delivered[k][i][2] < delivered[k][j][2]

C8_Witness ==
    /\ Range(Delivered) = Submitted
    /\ Cardinality(Submitted) = MaxSubmits
    /\ \E k \in 1..Len(delivered) :
          /\ Len(delivered[k]) >= 3
          /\ delivered[k][1][1] = delivered[k][3][1]
          /\ delivered[k][1][1] # delivered[k][2][1]

\* C9: a value returned by Len while the loop is running is the number of
\* accepted and not yet delivered values at the instant of the answer: not
\* negative, not more than accepted minus delivered, and at most the
\* capacity when the capacity is bounded.
C9_LenIsPendingCount ==
    [][\A c \in LenCallers :
          (qpc[c] = "waiting" /\ qpc'[c] = "idle" /\ ~lenClosed) =>
              /\ lenResult'[c] = Len(accepted) - Len(Delivered)
              /\ lenResult'[c] = Len(accepted') - Len(Flatten(delivered'))
              /\ lenResult'[c] >= 0
              /\ size # Infinity => lenResult'[c] <= size]_vars

C9_Witness ==
    /\ \E c \in LenCallers : qpc[c] = "idle" /\ lenResult[c] >= 2
    /\ delivered # <<>>
    /\ ~lenClosed

\* C10: a hand-off gives the batch to exactly one reader blocked on Out, the
\* other readers stay as they were, and no value is in the batches of two
\* different readers.
C10_OneReaderPerBatch ==
    /\ [](\A r1, r2 \in Readers :
            r1 # r2 => Range(GotBy(r1)) \cap Range(GotBy(r2)) = {})
    /\ [][(delivered' # delivered) =>
            \E r \in Readers :
                /\ rpc[r] = "recv"
                /\ got'[r] = Append(got[r], buffer)
                /\ rpc'[r] = "idle"
                /\ \A x \in Readers \ {r} :
                      got'[x] = got[x] /\ rpc'[x] = rpc[x]]_vars

C10_Witness ==
    \E r1, r2 \in Readers :
        /\ r1 # r2
        /\ got[r1] # <<>> /\ got[r2] # <<>>
        /\ rpc[r1] = "recv" /\ rpc[r2] = "idle"
        /\ buffer = <<>>

\* C13: NewBatchingChannel succeeds and starts the loop exactly when the
\* size is a positive integer or Infinity; with None or another negative
\* size it panics, no loop is started and no channel exists to be used.
C13_ConstructionIffValidCapacity ==
    /\ ctor # "call" => (ctor = "ok" <=> (size >= 1 \/ size = Infinity))
    /\ ctor = "ok" => lpc # "none"
    /\ ctor # "ok" =>
          /\ lpc = "none"
          /\ input = NilChan /\ output = NilChan /\ nextInput = NilChan
          /\ buffer = <<>> /\ accepted = <<>> /\ delivered = <<>>
          /\ Submitted = {} /\ closeCalls = 0
          /\ \A r \in Readers : rpc[r] = "idle"
          /\ \A c \in LenCallers : qpc[c] = "idle"

C13_Witness ==
    /\ ctor = "panic"
    /\ size < 0

\* C14: while the loop is in its select, the write edge is offered exactly
\* when the loop has not observed Close and the capacity is Infinity or the
\* buffer is below it, and the read edge exactly when the buffer is
\* non-empty; in an iteration an empty buffer means write offered and read
\* not, a bounded buffer at capacity means read offered and write not.
C14_OfferedEdges ==
    lpc = "select" =>
        /\ input # NilChan <=>
              (nextInput # NilChan /\ (size = Infinity \/ Len(buffer) < size))
        /\ output # NilChan <=> buffer # <<>>
        /\ (Running /\ buffer = <<>>) =>
              (input = ChInput /\ output = NilChan)
        /\ (size # Infinity /\ Len(buffer) >= size) =>
              (input = NilChan /\ output = ChOutput)

C14_Witness ==
    /\ lpc = "select"
    /\ size = MaxCap /\ Len(buffer) = size
    /\ ~inClosed
    /\ \E w \in Writers : wpc[w] = "sending"

\* C16: a hand-off sends the entire buffer as one batch and empties the
\* buffer in the same loop step: the reader gets exactly the buffer as it
\* was, the buffer is then empty, and a Len answered on the empty buffer
\* returns 0.
C16_HandOffTakesWholeBuffer ==
    /\ [][(delivered' # delivered) =>
            /\ buffer # <<>>
            /\ delivered' = Append(delivered, buffer)
            /\ \E r \in Readers : got'[r] = Append(got[r], buffer)
            /\ buffer' = <<>>
            /\ LenReply(buffer') = 0]_vars
    /\ [][\A c \in LenCallers :
            (qpc[c] = "waiting" /\ qpc'[c] = "idle" /\ buffer = <<>>) =>
                lenResult'[c] = 0]_vars

C16_Witness ==
    /\ \E r \in Readers : \E i \in 1..Len(got[r]) : Len(got[r][i]) >= 2
    /\ buffer = <<>>
    /\ lpc = "select" /\ ~inClosed
    /\ \E c \in LenCallers : qpc[c] = "waiting"

\* C17: the loop step that answers a Len query changes nothing of the
\* loop: the buffer, the offered edges (input, output), the observed-closed
\* status (nextInput), the loop's position and what was accepted and
\* delivered stay as they were.
C17_LenIsObservational ==
    [][\A c \in LenCallers :
          (qpc[c] = "waiting" /\ qpc'[c] = "idle") =>
              UNCHANGED <<buffer, input, output, nextInput, lpc, chanVars,
                          accepted, delivered>>]_vars

C17_Witness ==
    /\ \E c \in LenCallers :
          qpc[c] = "idle" /\ lenResult[c] >= 1 /\ lenResult[c] = Len(buffer)
    /\ lpc = "select"
    /\ input = ChInput /\ output = ChOutput

\* C18: once Close has been invoked at most one more batch is sent on Out
\* before it is closed, and after that batch the buffer stays empty,
\* whether the write edge was enabled or disabled at capacity at the Close.
C18_AtMostOneBatchAfterClose ==
    /\ batchesAfterClose <= 1
    /\ batchesAfterClose = 1 => (inClosed /\ buffer = <<>>)

C18_Witness ==
    /\ batchesAfterClose = 1
    /\ size = MaxCap
    /\ Len(delivered[Len(delivered)]) = size
    /\ outClosed

\* C20: after the loop has terminated, Len never blocks and returns 0 and a
\* receive on Out never blocks and reports end-of-stream, again and again.
C20_AfterTermination ==
    /\ [](lpc = "done" =>
            /\ outClosed /\ lenClosed
            /\ \A c \in LenCallers :
                  /\ qpc[c] = "idle" => ENABLED StartLen(c)
                  /\ qpc[c] = "waiting" => ENABLED LenClosed(c)
            /\ \A r \in Readers :
                  /\ rpc[r] # "recv" => ENABLED StartRecv(r)
                  /\ rpc[r] = "recv" => ENABLED RecvClosed(r))
    /\ [][lpc = "done" =>
            /\ lpc' = "done"
            /\ \A c \in LenCallers :
                  (qpc[c] = "waiting" /\ qpc'[c] = "idle") => lenResult'[c] = 0
            /\ \A r \in Readers :
                  (rpc[r] = "recv" /\ rpc'[r] # "recv") =>
                      (rpc'[r] = "eos" /\ got'[r] = got[r])]_vars

C20_Witness ==
    /\ lpc = "done"
    /\ \E r1, r2 \in Readers :
          /\ r1 # r2
          /\ rpc[r1] = "eos" /\ got[r1] # <<>>
          /\ rpc[r2] = "recv"
    /\ \E c \in LenCallers : qpc[c] = "waiting"

\* writer w was blocked in its send when the input was closed
BlockedAtClose(w) ==
    inClosed /\ wpc[w] \in {"sending", "panicked"} /\ ~lateSend[w]

\* the value of a writer blocked at the Close is never accepted, buffered
\* or delivered, and its send ends in the panic only
C19_BlockedValueNeverAccepted ==
    /\ [](\A w \in Writers :
            BlockedAtClose(w) =>
                ValueOf(w) \notin
                    (Range(accepted) \cup Range(buffer) \cup Range(Delivered)))
    /\ [][\A w \in Writers :
            (wpc[w] = "sending" /\ inClosed) =>
                wpc'[w] \in {"sending", "panicked"}]_vars

\* the loop step that observes the Close
ObservesClose == nextInput # NilChan /\ nextInput' = NilChan

\* C19 as stated: a writer blocked in a send at the Close never has its
\* value appended or delivered and gets the panic, and the loop observes
\* the Close only after the pending batch is drained.
C19_Original ==
    /\ C19_BlockedValueNeverAccepted
    /\ [][((\E w \in Writers : BlockedAtClose(w)) /\ ObservesClose) =>
            buffer = <<>>]_vars

\* C19 amended: a writer blocked in a send at the Close never has its value
\* appended or delivered and gets the panic; when the buffer was at
\* capacity at the Close (write edge disabled), the loop observes the
\* Close only after the pending batch is drained.
C19_BlockedWriterAtClose ==
    /\ C19_BlockedValueNeverAccepted
    /\ [][((\E w \in Writers : BlockedAtClose(w)) /\ capAtClose
               /\ ObservesClose) =>
            (buffer = <<>> /\ batchesAfterClose = 1)]_vars

C19_Witness ==
    /\ capAtClose
    /\ \E w \in Writers : wpc[w] = "panicked" /\ ~lateSend[w]
    /\ nextInput = NilChan
    /\ batchesAfterClose = 1

\* C12: a pending Len call is eventually answered, whatever the buffer holds
\* (empty, under capacity, at capacity with no reader, closed and not yet
\* drained) and whatever the writers and readers do: the length case is in
\* every select and is not starved.
C12_LenEventuallyAnswered ==
    \A c \in LenCallers : (qpc[c] = "waiting") ~> (qpc[c] = "idle")

C12_Witness ==
    /\ \E c \in LenCallers : qpc[c] = "idle" /\ lenResult[c] = MaxCap
    /\ size = MaxCap /\ Len(buffer) = size
    /\ inClosed /\ delivered = <<>>
    /\ \A r \in Readers : rpc[r] = "idle"

\* C15: the loop is left only when Close has been invoked and the buffer is
\* empty, and it then closes the Out channel and the length channel; once
\* Close has been invoked and a reader keeps receiving, the loop ends,
\* whether the Close came on an empty buffer, under capacity or at capacity.
C15_LoopTermination ==
    /\ [](lpc \in {"closeOutput", "closeLength", "done"} =>
            (inClosed /\ buffer = <<>> /\ nextInput = NilChan))
    /\ [](lpc = "done" => (outClosed /\ lenClosed))
    /\ [](outClosed => lpc \in {"closeLength", "done"})
    /\ [](lenClosed => lpc = "done")
    /\ ([]<>(\E r \in Readers : rpc[r] = "recv")) => (inClosed ~> lpc = "done")

C15_Witness ==
    /\ lpc = "done" /\ outClosed /\ lenClosed
    /\ capAtClose /\ batchesAfterClose = 1
    /\ \E r \in Readers : rpc[r] = "eos" /\ got[r] # <<>>

\* C11 as stated: a writer blocked at capacity is accepted once one reader
\* has taken the batch that was current while it was blocked, unless Close
\* is invoked.
C11_Original ==
    \A w \in Writers :
        (wpc[w] = "sending" /\ capDrained[w]) ~> (wpc[w] = "idle" \/ inClosed)

\* C11: capacity never rejects a submit or drops a value: a writer blocked
\* because the bounded buffer is at capacity is eventually accepted, its
\* value appended, provided a reader keeps taking the batches and Close is
\* not invoked (one hand-off makes room for at most N blocked writers).
C11_BlockedWriterEventuallyAccepted ==
    /\ [][\A w \in Writers :
            (wpc[w] = "sending" /\ ~inClosed' /\ wpc'[w] # "sending") =>
                (wpc'[w] = "idle" /\ accepted' = Append(accepted, ValueOf(w)))]_vars
    /\ \A w \in Writers :
        ([]<>(\E r \in Readers : rpc[r] = "recv")) =>
            ((wpc[w] = "sending" /\ AtCapacity) ~> (wpc[w] = "idle" \/ inClosed))

C11_Witness ==
    /\ ~inClosed /\ AtCapacity /\ input = NilChan
    /\ delivered # <<>>
    /\ \E w \in Writers : wpc[w] = "sending" /\ capDrained[w]

====
